---- MODULE Spec2Model ----
(***************************************************************************)
(* Model of backup.py (Incremental File-Based Backup Script).              *)
(*                                                                         *)
(* Time is counted in clock ticks; TicksPerSec ticks make one second, so   *)
(* datetime.now() and file modification times are finer than the one       *)
(* second that strftime("%Y%m%d%H%M%S") and "%Y-%m-%d %H:%M:%S" keep.      *)
(* A formatted time string is represented by its whole-second count.       *)
(*                                                                         *)
(* Two specifications:                                                     *)
(*   Spec       perform_backup invoked repeatedly while the clock runs     *)
(*              and source files are modified;                             *)
(*   PruneSpec  remove_old_backups applied to destination trees.           *)
(***************************************************************************)
EXTENDS Integers, Sequences, FiniteSets, TLC

VARIABLES
    clock,              \* datetime.now(), in ticks
    mtime,              \* os.path.getmtime of every source file, in ticks
    conf,               \* option backup.last_backup_time of backup.conf
    pc,                 \* position of perform_backup
    last_backup_time,   \* local of perform_backup (line 160 / 162)
    current_time,       \* local of create_backup (line 84)
    todo,               \* files os.walk has still to yield
    dest,               \* files under backup_path
    copied,             \* per source file: shutil.copy2 calls of this run
    phases,             \* what the current run has done so far
    taint,              \* a file of this run was not modified before it began
    cleanRuns,          \* completed runs since the last source change
    fault,              \* the error condition the current run has met, if any
    timeframe,          \* the string given to parse_timeframe
    result,             \* what parse_timeframe returned or raised for it
    listing,            \* remove_old_backups: entries os.listdir returned, left to visit
    ppc,                \* position of remove_old_backups
    backup_retention_time,          \* timeframes.backup_retention_time, parsed
    second_stage_backup_interval,   \* the second stage interval of the configuration
    oldest_allowed_backup_time,     \* argument of remove_old_backups
    log                 \* remove_old_backups: what was done with each visited entry

vars == <<clock, mtime, conf, pc, last_backup_time, current_time, todo, dest,
          copied, phases, taint, cleanRuns, fault, timeframe, result, listing, ppc,
          backup_retention_time,
          second_stage_backup_interval, oldest_allowed_backup_time, log>>

backupVars == <<mtime, conf, pc, last_backup_time, current_time, todo,
                copied, phases, taint, cleanRuns, fault>>

parseVars == <<timeframe, result>>
pruneVars == <<listing, ppc, backup_retention_time,
               second_stage_backup_interval, oldest_allowed_backup_time, log>>

----------------------------------------------------------------------------
(* Bounds *)

\* ticks in one second
TicksPerSec == 3
\* ticks the clock advances in a behaviour of Spec
MaxTicks == 3
\* largest magnitude of a time frame given to parse_timeframe
MaxMagnitude == 2
\* largest second stage interval given as a number of days
MaxInterval == 3
\* most entries of backup_path when remove_old_backups is applied
MaxEntries == 2
\* half days the clock advances in a behaviour of PruneSpec
MaxHalfDays == 4

----------------------------------------------------------------------------
(* Time *)

\* datetime.min: below every time a clock or a file system can give.
DatetimeMin == 0

\* strftime with %S as its finest field: the microseconds are dropped.
Strftime(t) == t \div TicksPerSec

\* strptime of a well-formed string: the instant at the start of that second.
Strptime(s) == s * TicksPerSec

----------------------------------------------------------------------------
(* Names.  A file name is the sequence of its "_"-separated segments; a     *)
(* segment is text, or fourteen digits of a timestamp followed by text.     *)

Seg(t) == [txt |-> t, ts |-> <<>>]
TsSeg(sec, t) == [txt |-> t, ts |-> <<sec>>]

SourceFiles == {"f1", "f2"}

\* directory of the file, relative to source_path
Dir(f) == IF f = "f1" THEN <<>> ELSE << <<Seg("sub")>> >>
\* os.path.splitext(file)
Stem(f) == IF f = "f1" THEN <<Seg("a")>> ELSE <<Seg("b")>>
Ext(f) == ".txt"

\* text appended to the last segment of a name
AppendTxt(name, t) ==
    [i \in 1..Len(name) |->
        IF i = Len(name) THEN [name[i] EXCEPT !.txt = name[i].txt \o t] ELSE name[i]]

\* the file's own name
FileName(f) == AppendTxt(Stem(f), Ext(f))

\* os.path.relpath(file_path, source_path): the directories, then the file name
rel_path(f) == Dir(f) \o <<FileName(f)>>

\* f"{backup_file_name}_{backup_time}{file_ext}"
new_file_name(f, now) == Stem(f) \o <<TsSeg(Strftime(now), Ext(f))>>

\* os.path.join(backup_path, rel_path, new_file_name), below backup_path
backup_file_path(f, now) == rel_path(f) \o <<new_file_name(f, now)>>

----------------------------------------------------------------------------
(* perform_backup and create_backup *)

NoOption == [kind |-> "absent", sec |-> 0]
Malformed == [kind |-> "malformed", sec |-> 0]
Stamp(s) == [kind |-> "time", sec |-> s]

\* os.walk(source_path): every regular file below source_path, each once
WalkTopOnly == {f \in SourceFiles : Dir(f) = <<>>}
os_walk == SourceFiles

ShouldCopyOrEqual(modified_time, last) ==
    modified_time >= last \/ last = DatetimeMin
\* line 94
ShouldCopy(modified_time, last) ==
    modified_time > last \/ last = DatetimeMin

\* shutil.copy2 to path p: whatever was at p is replaced
Copy2(tree, p, f, ver) ==
    {b \in tree : b.path # p} \cup {[path |-> p, src |-> f, ver |-> ver]}

AddPhase(ph, p) == IF ph # <<>> /\ ph[Len(ph)] = p THEN ph ELSE Append(ph, p)

NoFault == [kind |-> "none", file |-> ""]
Fault(k, f) == [kind |-> k, file |-> f]

\* what a run may meet before create_backup is called: nothing, a missing
\* section or option (config.get, lines 148-151), a time frame that
\* parse_timeframe rejects (lines 150-151), a backup_path that os.makedirs
\* cannot make (line 155), a source_path that cannot be read
Conditions ==
    {"none", "ConfigError", "InvalidTime", "DestinationUncreatable",
     "SourceUnreadable"}

\* the exception that ends perform_backup before line 170, in the order of
\* the lines that raise; strptime's ValueError for a malformed
\* last_backup_time is not the NoOptionError that line 161 catches
StartRaises(env, c) ==
    IF env \in {"ConfigError", "InvalidTime", "DestinationUncreatable"} THEN env
    ELSE IF c.kind = "malformed" THEN "MalformedWatermark"
    ELSE "none"

\* os.walk with its default onerror: a directory that cannot be listed
\* yields nothing and raises nothing
Walked(env) == IF env = "SourceUnreadable" THEN {} ELSE os_walk

\* lines 145-170 up to the call, and lines 84-86: the configuration is read,
\* the watermark resolved, the run time taken and the walk begun.
Start(env) ==
    /\ pc \in {"idle", "done"}
    /\ ppc # "running"
    /\ copied' = [f \in SourceFiles |-> 0]
    /\ IF StartRaises(env, conf) # "none"
       THEN /\ pc' = "failed"
            /\ fault' = Fault(StartRaises(env, conf), "")
            /\ phases' = <<>>
            /\ UNCHANGED <<last_backup_time, current_time, todo, taint>>
       ELSE /\ last_backup_time' =
                  IF conf.kind = "absent" THEN DatetimeMin ELSE Strptime(conf.sec)
            /\ current_time' = clock
            /\ todo' = Walked(env)
            /\ taint' = (\E f \in SourceFiles : mtime[f] >= clock)
            /\ phases' = <<"Scanning">>
            /\ fault' = Fault(env, "")
            /\ pc' = IF todo' = {} THEN "persist" ELSE "walk"
    /\ UNCHANGED <<clock, mtime, conf, dest, cleanRuns>>
    /\ UNCHANGED pruneVars
    /\ UNCHANGED parseVars

RunTimeReread(now, captured) == now
\* line 97: the time embedded in a backup's name is current_time of line 84
RunTime(now, captured) == captured

\* lines 87-110 for one file; after the last file create_backup returns.
\* getmtime and copy2 see the same version of the file; the set of source
\* files does not change while the walk goes on.  When os.makedirs or
\* shutil.copy2 raises (ok is false) nothing catches it.
Visit(f, ok) ==
    /\ pc = "walk"
    /\ f \in todo
    /\ LET modified_time == mtime[f] IN
       IF ShouldCopy(modified_time, last_backup_time) /\ ~ok
       THEN /\ pc' = "failed"
            /\ fault' = Fault("FileCopyError", f)
            /\ UNCHANGED <<dest, copied, todo, phases>>
       ELSE /\ IF ShouldCopy(modified_time, last_backup_time)
               THEN /\ dest' = Copy2(dest,
                                     backup_file_path(f, RunTime(clock, current_time)),
                                     f, modified_time)
                    /\ copied' = [copied EXCEPT ![f] = @ + 1]
               ELSE UNCHANGED <<dest, copied>>
            /\ todo' = todo \ {f}
            /\ phases' = AddPhase(phases, "Copying")
            /\ pc' = IF todo' = {} THEN "persist" ELSE "walk"
            /\ UNCHANGED fault
    /\ UNCHANGED <<clock, mtime, conf, last_backup_time, current_time, taint, cleanRuns>>
    /\ UNCHANGED pruneVars
    /\ UNCHANGED parseVars

\* the time written at line 173
PersistedTime(now, captured) == now

\* lines 172-177
Persist ==
    /\ pc = "persist"
    /\ conf' = Stamp(Strftime(PersistedTime(clock, current_time)))
    /\ phases' = AddPhase(phases, "Persisting")
    /\ cleanRuns' = IF taint \/ fault # NoFault THEN 0
                    ELSE IF cleanRuns < 2 THEN cleanRuns + 1 ELSE 2
    /\ pc' = "done"
    /\ UNCHANGED <<clock, mtime, last_backup_time, current_time, todo, dest, copied,
                   taint, fault>>
    /\ UNCHANGED pruneVars
    /\ UNCHANGED parseVars

----------------------------------------------------------------------------
(* remove_old_backups *)

SecsPerHour == 3600
HoursPerDay == 24
TicksPerHour == SecsPerHour * TicksPerSec
TicksPerDay == HoursPerDay * TicksPerHour

\* timedelta(hours=duration), timedelta(days=duration) of lines 65-68
parse_timeframe(duration, unit) ==
    IF unit = "h" THEN duration * TicksPerHour ELSE duration * TicksPerDay

\* timedelta.days: whole days, rounded down
Days(delta) == delta \div TicksPerDay

\* longest string given to parse_timeframe
MaxLen == 3

\* a string is the sequence of its characters
Digits == {"0", "1", "5"}
Chars == Digits \cup {"-", "+", " ", "_", "h", "d", "m"}
Strings == UNION {[1..k -> Chars] : k \in 0..MaxLen}

DigitValue(c) == IF c = "0" THEN 0 ELSE IF c = "1" THEN 1 ELSE 5

RECURSIVE Decimal(_)
Decimal(ds) ==
    IF ds = <<>> THEN 0
    ELSE 10 * Decimal(SubSeq(ds, 1, Len(ds) - 1)) + DigitValue(ds[Len(ds)])

IsDigit(c) == c \in Digits

NoInt == <<>>

\* int(str) of line 62: surrounding whitespace is dropped, one sign is
\* allowed, digits may be grouped by single underscores; NoInt when int
\* raises ValueError
PyInt(str) ==
    LET idx == {i \in 1..Len(str) : str[i] # " "}
    IN  IF idx = {} THEN NoInt
        ELSE LET lo == CHOOSE i \in idx : \A j \in idx : i <= j
                 hi == CHOOSE i \in idx : \A j \in idx : i >= j
                 core == SubSeq(str, lo, hi)
                 signed == core[1] \in {"-", "+"}
                 body == IF signed THEN Tail(core) ELSE core
                 wellFormed ==
                     /\ body # <<>>
                     /\ \A i \in 1..Len(body) : IsDigit(body[i]) \/ body[i] = "_"
                     /\ IsDigit(body[1])
                     /\ IsDigit(body[Len(body)])
                     /\ \A i \in 1..(Len(body) - 1) :
                           ~(body[i] = "_" /\ body[i + 1] = "_")
                 magnitude == Decimal(SelectSeq(body, IsDigit))
             IN  IF ~wellFormed THEN NoInt
                 ELSE IF core[1] = "-" THEN <<0 - magnitude>> ELSE <<magnitude>>

NotParsed == [kind |-> "none", at |-> "", n |-> 0]
Timedelta(ticks) == [kind |-> "timedelta", at |-> "", n |-> ticks]
ValueError(where) == [kind |-> "ValueError", at |-> where, n |-> 0]

\* lines 60-70 on the string: int(timeframe[:-1]) is evaluated first and
\* raises ValueError, for the empty string too; then the unit is examined
Parsed(str) ==
    LET duration == PyInt(SubSeq(str, 1, Len(str) - 1))
    IN  IF duration = NoInt THEN ValueError("int")
        ELSE LET unit == str[Len(str)]
             IN  IF unit \in {"h", "d"}
                 THEN Timedelta(parse_timeframe(duration[1], unit))
                 ELSE ValueError("unit")

\* parse_timeframe is applied to the string
Parse ==
    /\ result = NotParsed
    /\ result' = Parsed(timeframe)
    /\ UNCHANGED <<clock, dest, timeframe>>
    /\ UNCHANGED backupVars
    /\ UNCHANGED pruneVars

TimeFrames == {parse_timeframe(m, u) : m \in 0..MaxMagnitude, u \in {"h", "d"}}

\* the interval as a number of days, which lines 123-125 compute with, or as
\* the timedelta parse_timeframe returns at line 151
Intervals ==
    {[kind |-> "int", n |-> k] : k \in 0..MaxInterval} \cup
    {[kind |-> "timedelta", n |-> d] : d \in TimeFrames}

\* the entries of backup_path itself
TopNames(tree) == {b.path[1] : b \in tree}
IsDir(tree, name) == \E b \in tree : b.path[1] = name /\ Len(b.path) > 1
Subtree(tree, name) == {b \in tree : b.path[1] = name}

NoTime == <<>>

BackupTimeOfLast(backup) ==
    LET seg == backup[Len(backup)]
    IN  IF seg.ts = <<>> \/ seg.txt # "" THEN NoTime ELSE <<Strptime(seg.ts[1])>>
\* lines 118-119: backup.split("_")[1], then strptime; NoTime when either raises
\* (IndexError for a name without "_", ValueError for a segment that is not
\* exactly a timestamp)
BackupTimeOf(backup) ==
    IF Len(backup) < 2 THEN NoTime
    ELSE LET seg == backup[2]
         IN  IF seg.ts = <<>> \/ seg.txt # "" THEN NoTime ELSE <<Strptime(seg.ts[1])>>

\* line 123 raises TypeError when the interval is a timedelta, as the value
\* parse_timeframe returns is
IntervalRaises(interval) == interval.kind # "int"

\* lines 123-126
Spared(interval, age) == interval.n > 0 /\ age % interval.n = 0

Record(name, what, age, files) ==
    [name |-> name, what |-> what, age |-> age, files |-> files]

\* every order os.listdir may return the names in
RECURSIVE Orders(_)
Orders(S) ==
    IF S = {} THEN {<<>>}
    ELSE UNION {{<<x>> \o o : o \in Orders(S \ {x})} : x \in S}

\* the function has returned or raised
PruneEnded == ppc \in {"done", "failed"}

\* line 115, called with the cutoff: now less the retention time
remove_old_backups ==
    /\ ppc # "running"
    /\ pc \in {"idle", "done", "failed"}
    /\ oldest_allowed_backup_time' = clock - backup_retention_time
    /\ listing' \in Orders(TopNames(dest))
    /\ ppc' = IF listing' = <<>> THEN "done" ELSE "running"
    /\ log' = <<>>
    /\ UNCHANGED <<clock, dest, backup_retention_time, second_stage_backup_interval>>
    /\ UNCHANGED backupVars
    /\ UNCHANGED parseVars

\* lines 117-131 for one entry; an exception ends the function
PruneVisit ==
    /\ ppc = "running"
    /\ LET backup == Head(listing)
           parsed == BackupTimeOf(backup)
           raise(what) ==
               /\ ppc' = "failed"
               /\ log' = Append(log, Record(backup, what, 0, {}))
               /\ UNCHANGED <<dest, listing>>
           continue(what, age, tree) ==
               /\ dest' = tree
               /\ log' = Append(log, Record(backup, what, age, dest \ tree))
               /\ listing' = Tail(listing)
               /\ ppc' = IF listing' = <<>> THEN "done" ELSE "running"
       IN  IF parsed = NoTime THEN raise("unparseable")
           ELSE LET backup_time == parsed[1]
                    time_difference == Days(clock - backup_time)
                IN  IF ~(backup_time < oldest_allowed_backup_time)
                    THEN continue("kept", 0, dest)
                    ELSE IF IntervalRaises(second_stage_backup_interval)
                    THEN raise("TypeError")
                    ELSE IF Spared(second_stage_backup_interval, time_difference)
                    THEN continue("spared", time_difference, dest)
                    ELSE IF ~IsDir(dest, backup)
                    THEN raise("NotADirectoryError")   \* shutil.rmtree of a file
                    ELSE continue("removed", time_difference,
                                  dest \ Subtree(dest, backup))
    /\ UNCHANGED <<clock, backup_retention_time, second_stage_backup_interval,
                   oldest_allowed_backup_time>>
    /\ UNCHANGED backupVars
    /\ UNCHANGED parseVars

----------------------------------------------------------------------------
(* Environment *)

ClockStart == 2 * TicksPerSec - 1

Tick ==
    /\ clock < ClockStart + MaxTicks
    /\ clock' = clock + 1
    /\ UNCHANGED <<dest>>
    /\ UNCHANGED backupVars
    /\ UNCHANGED pruneVars
    /\ UNCHANGED parseVars

\* a source file is written: its modification time becomes now
Modify(f) ==
    /\ mtime[f] < clock
    /\ mtime' = [mtime EXCEPT ![f] = clock]
    /\ taint' = TRUE
    /\ cleanRuns' = 0
    /\ UNCHANGED <<clock, conf, pc, last_backup_time, current_time, todo, dest,
                   copied, phases, fault>>
    /\ UNCHANGED pruneVars
    /\ UNCHANGED parseVars

----------------------------------------------------------------------------

Init ==
    /\ clock = ClockStart
    /\ mtime \in [SourceFiles -> TicksPerSec..ClockStart]
    /\ conf \in {NoOption, Malformed}
    /\ pc = "idle"
    /\ last_backup_time = DatetimeMin
    /\ current_time = DatetimeMin
    /\ todo = {}
    /\ dest = {}
    /\ copied = [f \in SourceFiles |-> 0]
    /\ phases = <<>>
    /\ taint = FALSE
    /\ cleanRuns = 0
    /\ fault = NoFault
    /\ timeframe = <<>>
    /\ result = NotParsed
    /\ listing = <<>>
    /\ ppc = "idle"
    /\ backup_retention_time = parse_timeframe(MaxMagnitude, "d")
    /\ second_stage_backup_interval =
          [kind |-> "timedelta", n |-> parse_timeframe(MaxMagnitude, "d")]
    /\ oldest_allowed_backup_time = 0
    /\ log = <<>>

Next ==
    \/ \E env \in Conditions : Start(env)
    \/ \E f \in SourceFiles, ok \in BOOLEAN : Visit(f, ok)
    \/ Persist
    \/ Tick
    \/ \E f \in SourceFiles : Modify(f)

Spec == Init /\ [][Next]_vars

----------------------------------------------------------------------------
(* remove_old_backups applied to destination trees *)

PruneClockStart == 3 * TicksPerDay + 1
HalfDay == TicksPerDay \div 2

\* time passes, between runs of remove_old_backups or during one
Pass ==
    /\ clock < PruneClockStart + MaxHalfDays * HalfDay
    /\ clock' = clock + HalfDay
    /\ UNCHANGED <<dest>>
    /\ UNCHANGED backupVars
    /\ UNCHANGED pruneVars
    /\ UNCHANGED parseVars

\* embedded times of the entries: 2 hours, 36 hours and 72 hours before the
\* start, the last being second 0; entry n carries the second of the
\* start itself, as line 97 formats it
EntrySecs == {(72 - h) * SecsPerHour : h \in {2, 36, 72}}

\* a directory of backup_path holding one backup made at the start
DirEntry(name) ==
    [path |-> <<name, name \o <<TsSeg(Strftime(PruneClockStart), "")>> >>,
     src |-> "none", ver |-> 0]
\* a regular file of backup_path
FileEntry(name) == [path |-> <<name>>, src |-> "none", ver |-> 0]

EntryPool ==
    {DirEntry(<<Seg("a"), TsSeg(t, "")>>) : t \in EntrySecs}
    \cup {FileEntry(<<Seg("c"), TsSeg(t, "")>>) : t \in EntrySecs}
    \cup {FileEntry(<<Seg("d"), TsSeg(0, ".txt")>>),
          DirEntry(<<Seg("e"), Seg("b"), TsSeg(0, "")>>),
          DirEntry(<<Seg("n"), TsSeg(Strftime(PruneClockStart), "")>>),
          [path |-> backup_file_path("f1", PruneClockStart), src |-> "f1",
           ver |-> PruneClockStart]}

PruneInit ==
    /\ clock = PruneClockStart
    /\ mtime = [f \in SourceFiles |-> TicksPerSec]
    /\ conf = NoOption
    /\ pc = "idle"
    /\ last_backup_time = DatetimeMin
    /\ current_time = DatetimeMin
    /\ todo = {}
    /\ dest \in {T \in SUBSET EntryPool : Cardinality(T) <= MaxEntries}
    /\ copied = [f \in SourceFiles |-> 0]
    /\ phases = <<>>
    /\ taint = FALSE
    /\ cleanRuns = 0
    /\ fault = NoFault
    /\ timeframe = <<>>
    /\ result = NotParsed
    /\ listing = <<>>
    /\ ppc = "idle"
    /\ backup_retention_time \in TimeFrames
    /\ second_stage_backup_interval \in Intervals
    /\ oldest_allowed_backup_time = 0
    /\ log = <<>>

PruneNext ==
    \/ remove_old_backups
    \/ PruneVisit
    \/ Pass

PruneSpec == PruneInit /\ [][PruneNext]_vars

----------------------------------------------------------------------------
(* remove_old_backups applied once a day to the same destination tree *)

\* days that pass in a behaviour of DailySpec
MaxDays == 3

\* the run of the day
DailyRun ==
    /\ ppc = "idle"
    /\ remove_old_backups

\* the run of the day has ended; the next one begins 24 hours after it began
DayPasses ==
    /\ PruneEnded
    /\ clock < PruneClockStart + MaxDays * TicksPerDay
    /\ clock' = clock + TicksPerDay
    /\ ppc' = "idle"
    /\ UNCHANGED <<dest, listing, backup_retention_time,
                   second_stage_backup_interval, oldest_allowed_backup_time, log>>
    /\ UNCHANGED backupVars
    /\ UNCHANGED parseVars

DailyNext ==
    \/ DailyRun
    \/ PruneVisit
    \/ DayPasses

DailySpec == PruneInit /\ [][DailyNext]_vars

----------------------------------------------------------------------------
(* parse_timeframe applied to strings *)

ParseInit ==
    /\ clock = ClockStart
    /\ mtime = [f \in SourceFiles |-> TicksPerSec]
    /\ conf = NoOption
    /\ pc = "idle"
    /\ last_backup_time = DatetimeMin
    /\ current_time = DatetimeMin
    /\ todo = {}
    /\ dest = {}
    /\ copied = [f \in SourceFiles |-> 0]
    /\ phases = <<>>
    /\ taint = FALSE
    /\ cleanRuns = 0
    /\ fault = NoFault
    /\ timeframe \in Strings
    /\ result = NotParsed
    /\ listing = <<>>
    /\ ppc = "idle"
    /\ backup_retention_time = 0
    /\ second_stage_backup_interval = [kind |-> "int", n |-> 0]
    /\ oldest_allowed_backup_time = 0
    /\ log = <<>>

ParseNext == Parse

ParseSpec == ParseInit /\ [][ParseNext]_vars

----------------------------------------------------------------------------
(* Claims about perform_backup and create_backup, checked under Spec *)

\* the time embedded in a backup file's own name, as create_backup writes it
EmbeddedTime(b) ==
    LET name == b.path[Len(b.path)]
        seg == name[Len(name)]
    IN  IF seg.ts = <<>> THEN NoTime ELSE <<Strptime(seg.ts[1])>>

\* C1: when a run that met no error completes, every source file whose
\* modification time is at or before the watermark just persisted has a
\* backup copy of that version
\* (modifications made while the run was in progress included).
C1_WatermarkCovers ==
    [][(pc = "persist" /\ pc' = "done" /\ fault = NoFault) =>
          \A f \in SourceFiles :
              mtime'[f] <= Strptime(conf'.sec) =>
                  \E b \in dest' : b.src = f /\ b.ver = mtime'[f]]_vars

\* C2: a completed run that met no error went through scanning, copying,
\* pruning and persisting, in that order.
C2_PruneBeforePersist ==
    (pc = "done" /\ fault = NoFault) =>
        phases = <<"Scanning", "Copying", "Pruning", "Persisting">>

\* C3: the watermark a run that met no error persists is the time the run
\* captured at the start of its copy phase, the one embedded in its backups'
\* names.
C3_WatermarkIsRunTime ==
    (pc = "done" /\ fault = NoFault) => conf = Stamp(Strftime(current_time))

\* C4: a visited source file is copied (by a copy that does not fail)
\* exactly when its modification time is after the watermark or the
\* watermark is the minimum timestamp; a file
\* modified at or before a watermark that is not the minimum is skipped.
C4_DecisionRule ==
    [][\A f \in SourceFiles :
          (pc = "walk" /\ f \in todo /\ f \notin todo' /\ pc' # "failed") =>
              LET isCopied == /\ copied'[f] = copied[f] + 1
                              /\ \E b \in dest' : /\ b.path = backup_file_path(f, current_time)
                                                  /\ b.src = f
                                                  /\ b.ver = mtime[f]
                  isSkipped == copied'[f] = copied[f] /\ dest' = dest
              IN  IF mtime[f] > last_backup_time \/ last_backup_time = DatetimeMin
                  THEN isCopied
                  ELSE isSkipped]_vars

\* C4 witness: with a watermark that is not the minimum, one file modified
\* exactly at the watermark was skipped and one modified a tick later copied.
C4_Witness ==
    /\ pc = "persist"
    /\ last_backup_time # DatetimeMin
    /\ \E f, g \in SourceFiles :
          /\ mtime[f] = last_backup_time /\ copied[f] = 0
          /\ mtime[g] = last_backup_time + 1 /\ copied[g] = 1

\* C5: the second of two consecutive completed runs that met no error, with
\* no source change since before the first one, copies no file.
C5_SecondRunCopiesNothing ==
    (pc = "persist" /\ ~taint /\ cleanRuns >= 1 /\ fault = NoFault) =>
        \A f \in SourceFiles : copied[f] = 0

\* C6: a run that found no persisted watermark and a readable source copies
\* every source file exactly once, whatever the modification times.
C6_FirstRunCopiesAll ==
    (pc \in {"persist", "done"} /\ last_backup_time = DatetimeMin /\ fault = NoFault) =>
        \A f \in SourceFiles :
            /\ copied[f] = 1
            /\ Cardinality({b \in dest : b.src = f}) = 1
            /\ \E b \in dest : b.src = f /\ b.path = backup_file_path(f, current_time)

\* C6 witness: a first run has finished its copy phase over files with
\* different modification times, one of them changed while the run went on.
C6_Witness ==
    /\ pc = "done"
    /\ fault = NoFault
    /\ last_backup_time = DatetimeMin
    /\ \A f \in SourceFiles : copied[f] = 1
    /\ \E f, g \in SourceFiles : mtime[f] < current_time /\ mtime[g] > current_time

\* C11: what the pruner extracts (lines 118-119) from the entry of backup_path
\* that create_backup made for a source file is the run time embedded in
\* the backup's name; the extraction never fails on the copier's layout.
C11_RoundTrip ==
    \A b \in dest :
        /\ BackupTimeOf(b.path[1]) # NoTime
        /\ BackupTimeOf(b.path[1]) = EmbeddedTime(b)

\* C12: the backup of <dir>/<stem><ext> is written to
\* <dir>/<stem>_<run time><ext> below backup_path, with no path segment
\* named after the source file itself.
C12_Layout ==
    \A b \in dest :
        /\ b.path = Dir(b.src) \o <<b.path[Len(b.path)]>>
        /\ LET name == b.path[Len(b.path)]
           IN  /\ Len(name) = Len(Stem(b.src)) + 1
               /\ SubSeq(name, 1, Len(name) - 1) = Stem(b.src)
               /\ name[Len(name)].ts # <<>>
               /\ name[Len(name)].txt = Ext(b.src)
        /\ \A i \in 1..(Len(b.path) - 1) : b.path[i] # FileName(b.src)

\* C19: every backup a run writes carries the time the run captured before
\* its scan began, however far the clock has moved on since.
C19_OneRunTime ==
    [][pc = "walk" =>
          /\ \A b \in dest' \ dest :
                EmbeddedTime(b) = <<Strptime(Strftime(current_time))>>
          /\ pc' # "failed" => current_time' = current_time]_vars

\* C19 witness: a run copied one file, then in a later second another file
\* that had been written in that later second; both backups carry the second
\* in which the run began.
C19_Witness ==
    /\ pc = "persist"
    /\ \A f \in SourceFiles :
          /\ copied[f] = 1
          /\ \E b \in dest : /\ b.src = f
                              /\ b.ver = mtime[f]
                              /\ EmbeddedTime(b) = <<Strptime(Strftime(current_time))>>
    /\ \E g \in SourceFiles : Strftime(mtime[g]) > Strftime(current_time)

\* C13: a run that has met an error condition (required configuration
\* missing, a rejected time frame, an unreadable source, a destination that
\* cannot be made, a failed copy) never changes the persisted watermark.
C13_ErrorLeavesWatermark ==
    [][fault # NoFault => conf' = conf]_vars

\* C14: when the copy of one changed file has failed, every other file that
\* the decision rule selects is copied in the same run (no source file was
\* written since the run began).
C14_OtherFilesStillCopied ==
    (pc \in {"failed", "done"} /\ fault.kind = "FileCopyError" /\ ~taint) =>
        \A g \in SourceFiles \ {fault.file} :
            ShouldCopy(mtime[g], last_backup_time) => copied[g] = 1

\* C17: with a persisted watermark that is present but not well-formed, a
\* run that got as far as resolving the watermark resolves it to the minimum
\* timestamp and goes on.
C17_MalformedIsFirstRun ==
    (/\ conf = Malformed
     /\ pc # "idle"
     /\ fault.kind \notin {"ConfigError", "InvalidTime", "DestinationUncreatable"}) =>
        /\ fault.kind # "MalformedWatermark"
        /\ pc # "failed"
        /\ last_backup_time = DatetimeMin

----------------------------------------------------------------------------
(* Claims about remove_old_backups, checked under PruneSpec *)

\* the name has no second "_"-separated segment that is exactly a timestamp
Unparseable(name) ==
    Len(name) < 2 \/ name[2].ts = <<>> \/ name[2].txt # ""

\* an entry of backup_path older than the cutoff of the run
Expired(name) ==
    ~Unparseable(name) /\ Strptime(name[2].ts[1]) < oldest_allowed_backup_time

\* C7: the pruner deletes no backup whose embedded timestamp is at or after
\* oldest_allowed = now - retention_window, backups inside a subtree it
\* deletes recursively included.
C7_WindowIsMinimumLifetime ==
    \A i \in 1..Len(log) :
        \A b \in log[i].files :
            EmbeddedTime(b) # NoTime =>
                EmbeddedTime(b)[1] < oldest_allowed_backup_time

C9_AllExpiredRemoved ==
    (PruneEnded /\ second_stage_backup_interval.n = 0) =>
        \A name \in TopNames(dest) : ~Expired(name)

IntervalDays ==
    IF second_stage_backup_interval.kind = "int"
    THEN second_stage_backup_interval.n
    ELSE Days(second_stage_backup_interval.n)

\* C10: with a second stage interval of N > 0 days, a run of the pruner
\* spares an expired entry exactly when its age in whole days is a multiple
\* of N: the entries it removed were not, and every expired entry left after
\* the run was spared at such an age.
C10_SparedIffMultiple ==
    (PruneEnded /\ IntervalDays > 0) =>
        /\ \A i \in 1..Len(log) :
              log[i].what = "removed" => log[i].age % IntervalDays # 0
        /\ \A name \in TopNames(dest) :
              Expired(name) =>
                  \E i \in 1..Len(log) :
                      /\ log[i].name = name
                      /\ log[i].what = "spared"
                      /\ log[i].age % IntervalDays = 0

\* C15: a run of the pruner with an interval in days that ended for no other
\* reason than the names it met (no rmtree of a regular file) leaves no
\* expired directory behind except those the policy spared, whatever
\* unparseable names backup_path holds and in whatever order it is listed.
C15_UnparseableSkipped ==
    (/\ PruneEnded
     /\ second_stage_backup_interval.kind = "int"
     /\ \A i \in 1..Len(log) : log[i].what # "NotADirectoryError") =>
        \A name \in TopNames(dest) :
            (Expired(name) /\ IsDir(dest, name)) =>
                \E i \in 1..Len(log) :
                    log[i].name = name /\ log[i].what = "spared"

\* the second in which the current run of the pruner began
PruneSecond == Strftime(oldest_allowed_backup_time + backup_retention_time)

\* C16: an entry whose embedded timestamp is the second in which the run
\* began is not older than the cutoff of that run, for every retention time
\* parse_timeframe returns.
C16_FreshBackupNotCandidate ==
    ppc # "idle" =>
        \A name \in TopNames(dest) :
            (~Unparseable(name) /\ name[2].ts[1] = PruneSecond) => ~Expired(name)

-----------------------------------------------------------------------------
(* Claims about daily runs of remove_old_backups, checked under DailySpec *)

\* daily runs that have returned or raised so far
RunsEnded == Days(clock - PruneClockStart) + (IF PruneEnded THEN 1 ELSE 0)

\* the cutoff of the first daily run
FirstCutoff == PruneClockStart - backup_retention_time

\* C20: with a second stage interval of N >= 2 days and one run of the
\* pruner a day, no entry that was older than the retention window at the
\* first run is left once N daily runs have ended.
C20_SparingOnlyDelays ==
    (/\ second_stage_backup_interval.kind = "int"
     /\ second_stage_backup_interval.n >= 2
     /\ RunsEnded >= second_stage_backup_interval.n) =>
        \A name \in TopNames(dest) :
            Unparseable(name) \/ ~(Strptime(name[2].ts[1]) < FirstCutoff)

-----------------------------------------------------------------------------
(* Claims about parse_timeframe, checked under ParseSpec *)

\* the string matches ^\d+[hd]$ (ASCII digits)
Matches(str) ==
    /\ Len(str) >= 2
    /\ str[Len(str)] \in {"h", "d"}
    /\ \A i \in 1..(Len(str) - 1) : IsDigit(str[i])

\* C18: a string matching ^\d+[hd]$ parses to the duration of that many
\* hours or days; every other string is rejected, at the unit when only its
\* last character is wrong and at the magnitude when its last character is
\* h or d.
C18_ParserAcceptsExactly ==
    result # NotParsed =>
        LET lead == SubSeq(timeframe, 1, Len(timeframe) - 1)
            leadIsNumber == lead # <<>> /\ \A i \in 1..Len(lead) : IsDigit(lead[i])
            unitIsKnown == timeframe # <<>> /\ timeframe[Len(timeframe)] \in {"h", "d"}
        IN  IF Matches(timeframe)
            THEN result = Timedelta(parse_timeframe(Decimal(lead),
                                                    timeframe[Len(timeframe)]))
            ELSE /\ result.kind = "ValueError"
                 /\ (leadIsNumber /\ ~unitIsKnown) => result.at = "unit"
                 /\ (~leadIsNumber /\ unitIsKnown) => result.at = "int"

====
